---- MODULE Spec2Model ----
(***************************************************************************)
(* Model of src/compare.py: compare_dirs and find_matching_files, the tree *)
(* reconciler of the repository comparison tool.                           *)
(*                                                                         *)
(* A tree is the function from the relative paths of its files to their    *)
(* bytes; a directory is any proper prefix of a file path.  Paths are      *)
(* sequences of components, os.path.join is concatenation and              *)
(* os.path.relpath strips the root.  compare_dirs runs as a state machine  *)
(* whose steps are the iterations of its loops.  A driver calls            *)
(* compare_dirs a first time and then a second time, with the same         *)
(* arguments, with the two roots swapped, or with the other mode.          *)
(*                                                                         *)
(* SpecRace lets another process delete files while compare_dirs runs.     *)
(* SpecMain is main: the clone directories named after the two URLs, the   *)
(* two clones, compare_dirs, the report.  RootL stands for the directory   *)
(* of the first clone, RootR for any other directory.  SpecDiff            *)
(* is generate_html_report's loop over diff_files, with side_by_side_diff, *)
(* the line alignment of difflib and the logging configuration.            *)
(***************************************************************************)
EXTENDS Naturals, Sequences, FiniteSets

VARIABLES
    treeL,          \* files of the tree under RootL: rel path -> bytes
    treeR,          \* files of the tree under RootR
    scan,           \* the order in which a directory lists its entries
    dir1,           \* compare_dirs argument dir1 (a root)
    dir2,           \* compare_dirs argument dir2
    deep_compare,   \* compare_dirs argument deep_compare
    pc,             \* position in compare_dirs
    matching_files, \* list returned by find_matching_files (absolute pairs)
    mi,             \* index of the next pair of matching_files
    roots,          \* directories os.walk has still to yield
    root,           \* the root os.walk yielded last
    files,          \* files of that root still to visit
    path1,          \* path1 of the running iteration
    path2,          \* path2 of the running iteration
    diff_files,
    same_files,
    only_in_dir1,
    only_in_dir2,
    cache,          \* filecmp._cache: set of <<key, outcome>>
    variant,        \* how the second call relates to the first
    first,          \* what the first call returned
    gone,           \* absolute paths of the files another process deleted
    mpc,            \* position in main
    clone_failed,   \* which clone_repo call raised: 0 for none
    report_written, \* comparison_report.html has been written
    repo1_url,      \* main argument repo1_url, a sequence of characters
    repo2_url,      \* main argument repo2_url
    cloned,         \* which repository the directory at each root holds
    jobs,           \* the pairs of files generate_html_report renders
    ji,             \* index of the pair being rendered
    spc,            \* position in side_by_side_diff
    handles,        \* open file objects: <<pair index, side>>
    lines1,         \* lines1 of the running side_by_side_diff
    lines2,         \* lines2 of the running side_by_side_diff
    opcodes,        \* the alignment of lines1 and lines2
    rendered,       \* what side_by_side_diff returned, pair by pair
    root_level,     \* level of the root logger
    handlers,       \* handlers of the root logger
    runlog          \* records written to repo_comparison_<timestamp>.log

mainVars == <<mpc, clone_failed, report_written, repo1_url, repo2_url, cloned>>

diffVars == <<jobs, ji, spc, handles, lines1, lines2, opcodes, rendered,
              root_level, handlers, runlog>>

vars == <<treeL, treeR, scan, dir1, dir2, deep_compare, pc, matching_files, mi,
          roots, root, files, path1, path2, diff_files, same_files,
          only_in_dir1, only_in_dir2, cache, variant, first, gone,
          mainVars, diffVars>>

----------------------------------------------------------------------------
(* Bounds of the model *)

\* files in the two trees together
MaxFiles == 3

\* directory entry names
Names == <<".git", "a", "b">>

\* the orders a directory listing may have: it is the file system's choice
ScanOrders == { Names, [i \in 1..Len(Names) |-> Names[Len(Names) + 1 - i]] }

\* relative paths a file may have
Paths == { <<"a">>, <<"b">>, <<"a", "b">>, <<".git", "b">>, <<"a", ".git", "b">> }

\* file contents: two of one size differing in a byte, one of another size
Contents == { <<1>>, <<2>>, <<1, 1>> }

\* where the two trees live
RootL == <<"data", "left">>
RootR == <<"data", "right">>

----------------------------------------------------------------------------
(* Paths and the file system *)

IsPrefix(s, t) == Len(s) <= Len(t) /\ SubSeq(t, 1, Len(s)) = s

Range(s) == { s[i] : i \in 1..Len(s) }

\* os.path.join(a, b) for a relative b
Join(a, b) == a \o b

\* os.path.relpath(path, start) for a path under start
RelPath(path, start) == SubSeq(path, Len(start) + 1, Len(path))

TreeOf(dir) == IF dir = RootL THEN treeL ELSE treeR

RootOf(path) == IF IsPrefix(RootL, path) THEN RootL ELSE RootR

IsFile(path) ==
    /\ RelPath(path, RootOf(path)) \in DOMAIN TreeOf(RootOf(path))
    /\ path \notin gone

IsDir(path) ==
    \E f \in DOMAIN TreeOf(RootOf(path)) :
        LET rel == RelPath(path, RootOf(path))
        IN  Len(rel) < Len(f) /\ IsPrefix(rel, f)

Bytes(path) == TreeOf(RootOf(path))[RelPath(path, RootOf(path))]

\* os.path.exists
PathExists(path) == IsFile(path) \/ IsDir(path) \/ path = RootOf(path)

\* os.walk(top): the directories in top-down order
RECURSIVE Walk(_), WalkSubs(_, _)
Walk(d) == <<d>> \o WalkSubs(d, 1)
WalkSubs(d, i) ==
    IF i > Len(scan) THEN <<>>
    ELSE (IF IsDir(Join(d, <<scan[i]>>)) THEN Walk(Join(d, <<scan[i]>>)) ELSE <<>>)
         \o WalkSubs(d, i + 1)

\* the files entry of the triple os.walk yields for directory d
FilesIn(d) == SelectSeq(scan, LAMBDA n : IsFile(Join(d, <<n>>)))

----------------------------------------------------------------------------
(* filecmp.cmp(f1, f2, shallow=False), as compare_dirs calls it *)

\* filecmp._sig without the modification time: the trees are static
Sig(path) == IF IsFile(path) THEN <<"reg", Len(Bytes(path))>> ELSE <<"dir", 0>>

CacheKey(f1, f2) == <<f1, f2, Sig(f1), Sig(f2)>>

Cached(f1, f2) == \E e \in cache : e[1] = CacheKey(f1, f2)

CachedOutcome(f1, f2) == (CHOOSE e \in cache : e[1] = CacheKey(f1, f2))[2]

\* filecmp._do_cmp: both files are opened and read to the end
DoCmp(f1, f2) == Bytes(f1) = Bytes(f2)

\* the call gets as far as opening the two files
NeedsOpen(f1, f2) ==
    /\ Sig(f1)[1] = "reg"
    /\ Sig(f2)[1] = "reg"
    /\ Sig(f1)[2] = Sig(f2)[2]
    /\ ~Cached(f1, f2)

\* a plausible slip: shallow=True semantics, equal signatures mean equal files
FilecmpShallow(f1, f2) ==
    IF Sig(f1)[1] # "reg" \/ Sig(f2)[1] # "reg" THEN FALSE
    ELSE Sig(f1) = Sig(f2)

\* the value filecmp.cmp returns when it raises nothing
Filecmp(f1, f2) ==
    IF Sig(f1)[1] # "reg" \/ Sig(f2)[1] # "reg" THEN FALSE
    ELSE IF Sig(f1)[2] # Sig(f2)[2] THEN FALSE
    ELSE IF Cached(f1, f2) THEN CachedOutcome(f1, f2)
    ELSE DoCmp(f1, f2)

CacheAfter(f1, f2) ==
    IF NeedsOpen(f1, f2)
    THEN cache \cup { <<CacheKey(f1, f2), DoCmp(f1, f2)>> }
    ELSE cache

----------------------------------------------------------------------------
(* The walks of compare_dirs and find_matching_files *)

\* a plausible slip: the name tested without its dot
InGitTypo(r) == "git" \in Range(r)

\* '.git' in root.split(os.path.sep)
InGit(r) == ".git" \in Range(r)

RECURSIVE Flatten(_)
Flatten(ss) == IF ss = <<>> THEN <<>> ELSE Head(ss) \o Flatten(Tail(ss))

\* the (root, file) pairs the two outer loops of find_matching_files visit
WalkFiles(d) ==
    LET w == Walk(d)
    IN  Flatten([i \in 1..Len(w) |->
            IF InGit(w[i]) THEN <<>>
            ELSE [k \in 1..Len(FilesIn(w[i])) |-> <<w[i], FilesIn(w[i])[k]>>]])

\* a plausible slip: the inner loop stops at the first directory that matches
MatchesForFirst(root1, file1, d2) ==
    LET w == Walk(d2)
        all == Flatten([j \in 1..Len(w) |->
                  IF InGit(w[j]) \/ file1 \notin Range(FilesIn(w[j])) THEN <<>>
                  ELSE << <<Join(root1, <<file1>>), Join(w[j], <<file1>>)>> >>])
    IN  IF all = <<>> THEN <<>> ELSE <<Head(all)>>

\* the inner loop of find_matching_files for one file of dir1
MatchesFor(root1, file1, d2) ==
    LET w == Walk(d2)
    IN  Flatten([j \in 1..Len(w) |->
            IF InGit(w[j]) \/ file1 \notin Range(FilesIn(w[j])) THEN <<>>
            ELSE << <<Join(root1, <<file1>>), Join(w[j], <<file1>>)>> >>])

find_matching_files(d1, d2) ==
    LET fs == WalkFiles(d1)
    IN  Flatten([i \in 1..Len(fs) |-> MatchesFor(fs[i][1], fs[i][2], d2)])

NoWork == [root |-> <<>>, files |-> <<>>, roots |-> <<>>]

\* the next root os.walk yields that the loop body does not skip and that
\* has files, with the directories left after it
RECURSIVE NextRoot(_)
NextRoot(rs) ==
    IF rs = <<>> THEN NoWork
    ELSE IF InGit(Head(rs)) \/ FilesIn(Head(rs)) = <<>> THEN NextRoot(Tail(rs))
    ELSE [root |-> Head(rs), files |-> FilesIn(Head(rs)), roots |-> Tail(rs)]

At(p, w) == [pc |-> p, root |-> w.root, files |-> w.files, roots |-> w.roots]

\* control reaches the loop over os.walk(dir2)
StartWalk2 ==
    LET w == NextRoot(Walk(dir2))
    IN  IF w.files = <<>> THEN At("done", NoWork) ELSE At("walk2", w)

\* control reaches the loop over os.walk(dir1)
StartWalk1 ==
    LET w == NextRoot(Walk(dir1))
    IN  IF w.files = <<>> THEN StartWalk2 ELSE At("walk1", w)

\* the iteration over one file of dir1 ends
After1 ==
    IF Len(files) > 1 THEN At("walk1", [root |-> root, files |-> Tail(files), roots |-> roots])
    ELSE LET w == NextRoot(roots)
         IN  IF w.files = <<>> THEN StartWalk2 ELSE At("walk1", w)

\* the iteration over one file of dir2 ends
After2 ==
    IF Len(files) > 1 THEN At("walk2", [root |-> root, files |-> Tail(files), roots |-> roots])
    ELSE LET w == NextRoot(roots)
         IN  IF w.files = <<>> THEN At("done", NoWork) ELSE At("walk2", w)

Goto(c) ==
    /\ pc' = c.pc
    /\ root' = c.root
    /\ files' = c.files
    /\ roots' = c.roots

----------------------------------------------------------------------------
(* compare_dirs *)

\* a plausible slip: the result lists live outside the function
StaleList(old) == old

\* diff_files = [], same_files = [], only_in_dir1 = [], only_in_dir2 = []
FreshList(old) == <<>>

\* a plausible slip: an equal fuzzy pair is recorded as identical
SameAfterFuzzyKept(eq, pair) == IF eq THEN Append(same_files, pair) ELSE same_files

\* the loop over matching_files has no else branch
SameAfterFuzzy(eq, pair) == same_files

\* a plausible slip: the list is assigned, not appended to
DiffAfterFuzzyAssigned(eq, pair) == IF eq THEN diff_files ELSE <<pair>>

DiffAfterFuzzy(eq, pair) == IF eq THEN diff_files ELSE Append(diff_files, pair)

\* a plausible slip: the test of the second walk without its "not"
PresentInDir1(p1) == PathExists(p1)

\* a plausible slip: the second walk asks for a file, the first for any entry
NoFileInDir1(p1) == ~IsFile(p1)

\* if not os.path.exists(path1)
MissingInDir1(p1) == ~PathExists(p1)

Result ==
    [diff |-> diff_files, same |-> same_files,
     only1 |-> only_in_dir1, only2 |-> only_in_dir2]

NoResult == [diff |-> <<>>, same |-> <<>>, only1 |-> <<>>, only2 |-> <<>>]

\* compare_dirs is entered
Call ==
    /\ pc = "idle"
    /\ diff_files' = FreshList(diff_files)
    /\ same_files' = FreshList(same_files)
    /\ only_in_dir1' = FreshList(only_in_dir1)
    /\ only_in_dir2' = FreshList(only_in_dir2)
    /\ IF deep_compare THEN Goto(At("match", NoWork)) ELSE Goto(StartWalk1)
    /\ UNCHANGED <<gone, mainVars, diffVars>>
    /\ UNCHANGED <<treeL, treeR, scan, dir1, dir2, deep_compare, matching_files, mi,
                   path1, path2, cache, variant, first>>

\* matching_files = find_matching_files(dir1, dir2)
FindMatching ==
    /\ pc = "match"
    /\ matching_files' = find_matching_files(dir1, dir2)
    /\ mi' = 1
    /\ IF matching_files' = <<>> THEN Goto(StartWalk1) ELSE Goto(At("fuzzy", NoWork))
    /\ UNCHANGED <<gone, mainVars, diffVars>>
    /\ UNCHANGED <<treeL, treeR, scan, dir1, dir2, deep_compare, path1, path2,
                   diff_files, same_files, only_in_dir1, only_in_dir2, cache,
                   variant, first>>

\* one iteration of the loop over matching_files
FuzzyCmp ==
    /\ pc = "fuzzy"
    /\ PathExists(matching_files[mi][1])
    /\ PathExists(matching_files[mi][2])
    /\ LET f1 == matching_files[mi][1]
           f2 == matching_files[mi][2]
           eq == Filecmp(f1, f2)
           pair == <<RelPath(f1, dir1), RelPath(f2, dir2)>>
       IN  /\ diff_files' = DiffAfterFuzzy(eq, pair)
           /\ same_files' = SameAfterFuzzy(eq, pair)
           /\ cache' = CacheAfter(f1, f2)
    /\ mi' = mi + 1
    /\ IF mi = Len(matching_files) THEN Goto(StartWalk1) ELSE Goto(At("fuzzy", NoWork))
    /\ UNCHANGED <<gone, mainVars, diffVars>>
    /\ UNCHANGED <<treeL, treeR, scan, dir1, dir2, deep_compare, matching_files,
                   path1, path2, only_in_dir1, only_in_dir2, variant, first>>

\* filecmp.cmp cannot read one of the two files: the error leaves compare_dirs
FuzzyRaises ==
    /\ pc = "fuzzy"
    /\ NeedsOpen(matching_files[mi][1], matching_files[mi][2])
    /\ pc' = "raised"
    /\ UNCHANGED <<gone, mainVars, diffVars>>
    /\ UNCHANGED <<treeL, treeR, scan, dir1, dir2, deep_compare, matching_files, mi,
                   roots, root, files, path1, path2, diff_files, same_files,
                   only_in_dir1, only_in_dir2, cache, variant, first>>

\* a file of dir1: path1, path2 and the os.path.exists(path2) test
Exists1 ==
    /\ pc = "walk1"
    /\ LET p1 == Join(root, <<Head(files)>>)
           p2 == Join(dir2, RelPath(p1, dir1))
       IN  IF PathExists(p2)
           THEN /\ pc' = "cmp1"
                /\ path1' = p1
                /\ path2' = p2
                /\ UNCHANGED <<roots, root, files, only_in_dir1>>
           ELSE /\ only_in_dir1' = Append(only_in_dir1, RelPath(p1, dir1))
                /\ Goto(After1)
                /\ UNCHANGED <<path1, path2>>
    /\ UNCHANGED <<gone, mainVars, diffVars>>
    /\ UNCHANGED <<treeL, treeR, scan, dir1, dir2, deep_compare, matching_files, mi,
                   diff_files, same_files, only_in_dir2, cache, variant, first>>

\* the filecmp.cmp(path1, path2, shallow=False) test and its two branches
Cmp1 ==
    /\ pc = "cmp1"
    /\ PathExists(path1)
    /\ PathExists(path2)
    /\ LET pair == <<RelPath(path1, dir1), RelPath(path2, dir2)>>
       IN  IF ~Filecmp(path1, path2)
           THEN /\ diff_files' = Append(diff_files, pair)
                /\ UNCHANGED same_files
           ELSE /\ same_files' = Append(same_files, pair)
                /\ UNCHANGED diff_files
    /\ cache' = CacheAfter(path1, path2)
    /\ Goto(After1)
    /\ path1' = <<>>
    /\ path2' = <<>>
    /\ UNCHANGED <<gone, mainVars, diffVars>>
    /\ UNCHANGED <<treeL, treeR, scan, dir1, dir2, deep_compare, matching_files, mi,
                   only_in_dir1, only_in_dir2, variant, first>>

\* filecmp.cmp cannot read one of the two files: the error leaves compare_dirs
CmpRaises ==
    /\ pc = "cmp1"
    /\ NeedsOpen(path1, path2)
    /\ pc' = "raised"
    /\ UNCHANGED <<gone, mainVars, diffVars>>
    /\ UNCHANGED <<treeL, treeR, scan, dir1, dir2, deep_compare, matching_files, mi,
                   roots, root, files, path1, path2, diff_files, same_files,
                   only_in_dir1, only_in_dir2, cache, variant, first>>

\* a file of dir2
Exists2 ==
    /\ pc = "walk2"
    /\ LET p2 == Join(root, <<Head(files)>>)
           p1 == Join(dir1, RelPath(p2, dir2))
       IN  IF MissingInDir1(p1)
           THEN only_in_dir2' = Append(only_in_dir2, RelPath(p2, dir2))
           ELSE UNCHANGED only_in_dir2
    /\ Goto(After2)
    /\ UNCHANGED <<gone, mainVars, diffVars>>
    /\ UNCHANGED <<treeL, treeR, scan, dir1, dir2, deep_compare, matching_files, mi,
                   path1, path2, diff_files, same_files, only_in_dir1, cache,
                   variant, first>>

\* the caller keeps what the first call returned and calls again: with the
\* same arguments, with the roots swapped, or with the other mode
Recall(v) ==
    /\ pc = "done"
    /\ variant = "none"
    /\ variant' = v
    /\ first' = Result
    /\ dir1' = IF v = "swap" THEN dir2 ELSE dir1
    /\ dir2' = IF v = "swap" THEN dir1 ELSE dir2
    /\ deep_compare' = IF v = "flip" THEN ~deep_compare ELSE deep_compare
    /\ pc' = "idle"
    /\ matching_files' = <<>>
    /\ mi' = 1
    /\ UNCHANGED <<gone, mainVars, diffVars>>
    /\ UNCHANGED <<treeL, treeR, scan, roots, root, files, path1, path2, diff_files,
                   same_files, only_in_dir1, only_in_dir2, cache>>

----------------------------------------------------------------------------
(* The trees compare_dirs is given *)

WellFormed(S) == \A f \in S : \A g \in S : f # g => ~IsPrefix(f, g)

Trees ==
    UNION { [S -> Contents] :
            S \in { T \in SUBSET Paths : WellFormed(T) /\ Cardinality(T) <= MaxFiles } }

\* no directory holds a clone
NoClones == [d \in {RootL, RootR} |-> "none"]

\* main is not part of the run
MainOff ==
    /\ mpc = "off"
    /\ clone_failed = 0
    /\ report_written = FALSE
    /\ repo1_url = <<>>
    /\ repo2_url = <<>>
    /\ cloned = NoClones

\* no report is being rendered
DiffOff ==
    /\ jobs = <<>>
    /\ ji = 1
    /\ spc = "off"
    /\ handles = {}
    /\ lines1 = <<>>
    /\ lines2 = <<>>
    /\ opcodes = <<>>
    /\ rendered = <<>>
    /\ root_level = 0
    /\ handlers = {}
    /\ runlog = <<>>

Init ==
    /\ treeL \in Trees
    /\ treeR \in Trees
    /\ Cardinality(DOMAIN treeL) + Cardinality(DOMAIN treeR) <= MaxFiles
    /\ scan \in ScanOrders
    /\ dir1 = RootL
    /\ dir2 = RootR
    /\ deep_compare \in BOOLEAN
    /\ pc = "idle"
    /\ matching_files = <<>>
    /\ mi = 1
    /\ roots = <<>>
    /\ root = <<>>
    /\ files = <<>>
    /\ path1 = <<>>
    /\ path2 = <<>>
    /\ diff_files = <<>>
    /\ same_files = <<>>
    /\ only_in_dir1 = <<>>
    /\ only_in_dir2 = <<>>
    /\ cache = {}
    /\ variant = "none"
    /\ first = NoResult
    /\ gone = {}
    /\ MainOff
    /\ DiffOff

Next ==
    \/ Call
    \/ FindMatching
    \/ FuzzyCmp
    \/ FuzzyRaises
    \/ Exists1
    \/ Cmp1
    \/ CmpRaises
    \/ Exists2
    \/ \E v \in {"same", "swap", "flip"} : Recall(v)

Spec == Init /\ [][Next]_vars

----------------------------------------------------------------------------
(* compare_dirs while another process deletes files *)

\* the files of the two trees that still exist
Existing ==
    ({ Join(RootL, p) : p \in DOMAIN treeL } \cup { Join(RootR, p) : p \in DOMAIN treeR })
        \ gone

\* another process deletes file f while compare_dirs runs
Delete(f) ==
    /\ pc \in {"match", "fuzzy", "walk1", "cmp1", "walk2"}
    /\ f \in Existing
    /\ gone' = gone \cup {f}
    /\ UNCHANGED <<mainVars, diffVars>>
    /\ UNCHANGED <<treeL, treeR, scan, dir1, dir2, deep_compare, pc, matching_files,
                   mi, roots, root, files, path1, path2, diff_files, same_files,
                   only_in_dir1, only_in_dir2, cache, variant, first>>

\* os.stat in filecmp.cmp finds no file: FileNotFoundError leaves compare_dirs
FuzzyMissing ==
    /\ pc = "fuzzy"
    /\ ~PathExists(matching_files[mi][1]) \/ ~PathExists(matching_files[mi][2])
    /\ pc' = "raised"
    /\ UNCHANGED <<gone, mainVars, diffVars>>
    /\ UNCHANGED <<treeL, treeR, scan, dir1, dir2, deep_compare, matching_files, mi,
                   roots, root, files, path1, path2, diff_files, same_files,
                   only_in_dir1, only_in_dir2, cache, variant, first>>

\* os.stat in filecmp.cmp finds no file: FileNotFoundError leaves compare_dirs
CmpMissing ==
    /\ pc = "cmp1"
    /\ ~PathExists(path1) \/ ~PathExists(path2)
    /\ pc' = "raised"
    /\ UNCHANGED <<gone, mainVars, diffVars>>
    /\ UNCHANGED <<treeL, treeR, scan, dir1, dir2, deep_compare, matching_files, mi,
                   roots, root, files, path1, path2, diff_files, same_files,
                   only_in_dir1, only_in_dir2, cache, variant, first>>

NextRace ==
    \/ Call
    \/ FindMatching
    \/ FuzzyCmp
    \/ FuzzyMissing
    \/ Exists1
    \/ Cmp1
    \/ CmpMissing
    \/ Exists2
    \/ \E f \in Existing : Delete(f)

SpecRace == Init /\ [][NextRace]_vars

----------------------------------------------------------------------------
(* main: clone the two repositories, compare them, write the report *)

\* a directory that does not exist or holds nothing
EmptyTree == [p \in {} |-> <<>>]

\* a plausible slip: the except branch logs the error and does not re-raise
AfterCloneErrorLogged(k) == IF k = 1 THEN "clone2" ELSE "compare"

\* clone_repo's except branch ends in raise, and main catches nothing
AfterCloneError(k) == "aborted"

\* repo_url.rstrip('/')
RECURSIVE Rstrip(_)
Rstrip(url) ==
    IF url # <<>> /\ url[Len(url)] = "/" THEN Rstrip(SubSeq(url, 1, Len(url) - 1))
    ELSE url

\* str.split('/'): the pieces between the slashes, empty pieces kept
RECURSIVE Split(_, _)
Split(url, piece) ==
    IF url = <<>> THEN <<piece>>
    ELSE IF Head(url) = "/" THEN <<piece>> \o Split(Tail(url), <<>>)
    ELSE Split(Tail(url), Append(piece, Head(url)))

\* parts of get_full_repo_name
Parts(url) == Split(Rstrip(url), <<>>)

\* parts[-2] raises IndexError
NoRepoName(url) == Len(Parts(url)) < 2

\* get_full_repo_name: f"{parts[-2]}_{parts[-1]}"
get_full_repo_name(url) ==
    Parts(url)[Len(Parts(url)) - 1] \o <<"_">> \o Parts(url)[Len(Parts(url))]

\* os.path.join(data_dir, name) for the second clone: the directory of the
\* first clone when the names are the same, another directory otherwise
RepoPath2(name1, name2) == IF name2 = name1 THEN RootL ELSE RootR

\* the URL pairs main is run with
UrlPairs ==
    { << <<"h", "/", "o", "/", "r">>,      <<"h", "/", "o", "/", "s", "/">> >>,
      << <<"h", "/", "o", "/", "r">>,      <<"g", "/", "o", "/", "r">> >>,
      << <<"h", "/", "o", "_", "r", "/", "s">>, <<"h", "/", "o", "/", "r", "_", "s">> >>,
      << <<"r">>,                          <<"h", "/", "o", "/", "r">> >> }

\* main up to the clones: the names and paths of the two clone directories
MainPaths ==
    /\ mpc = "paths"
    /\ IF NoRepoName(repo1_url) \/ NoRepoName(repo2_url)
       THEN mpc' = "aborted" /\ UNCHANGED dir2
       ELSE /\ mpc' = "clone1"
            /\ dir2' = RepoPath2(get_full_repo_name(repo1_url), get_full_repo_name(repo2_url))
    /\ UNCHANGED <<clone_failed, report_written, repo1_url, repo2_url, cloned, gone, diffVars>>
    /\ UNCHANGED <<treeL, treeR, scan, dir1, deep_compare, pc, matching_files, mi,
                   roots, root, files, path1, path2, diff_files, same_files,
                   only_in_dir1, only_in_dir2, cache, variant, first>>

\* clone_repo(repo1_url, repo1_path) returns: the target holds the clone
Clone1 ==
    /\ mpc = "clone1"
    /\ treeL' \in Trees
    /\ cloned' = [cloned EXCEPT ![dir1] = "repo1"]
    /\ mpc' = "clone2"
    /\ UNCHANGED <<clone_failed, report_written, repo1_url, repo2_url, gone, diffVars>>
    /\ UNCHANGED <<treeR, scan, dir1, dir2, deep_compare, pc, matching_files, mi,
                   roots, root, files, path1, path2, diff_files, same_files,
                   only_in_dir1, only_in_dir2, cache, variant, first>>

\* clone_repo(repo2_url, repo2_path) returns: whatever was at the target is
\* removed and the target holds the clone
Clone2 ==
    /\ mpc = "clone2"
    /\ \E t \in Trees :
          /\ treeL' = IF dir2 = RootL THEN t ELSE treeL
          /\ treeR' = IF dir2 = RootL THEN treeR ELSE t
    /\ Cardinality(DOMAIN treeL') + Cardinality(DOMAIN treeR') <= MaxFiles
    /\ cloned' = [cloned EXCEPT ![dir2] = "repo2"]
    /\ mpc' = "compare"
    /\ UNCHANGED <<clone_failed, report_written, repo1_url, repo2_url, gone, diffVars>>
    /\ UNCHANGED <<scan, dir1, dir2, deep_compare, pc, matching_files, mi,
                   roots, root, files, path1, path2, diff_files, same_files,
                   only_in_dir1, only_in_dir2, cache, variant, first>>

\* git.Repo.clone_from raises GitCommandError in the k-th clone_repo call:
\* the target was removed, nothing is cloned, the error is logged
CloneFails(k) ==
    /\ mpc = (IF k = 1 THEN "clone1" ELSE "clone2")
    /\ clone_failed' = k
    /\ mpc' = AfterCloneError(k)
    /\ treeL' = IF k = 1 \/ dir2 = RootL THEN EmptyTree ELSE treeL
    /\ treeR' = IF k = 2 /\ dir2 = RootR THEN EmptyTree ELSE treeR
    /\ cloned' = [cloned EXCEPT ![IF k = 1 THEN dir1 ELSE dir2] = "none"]
    /\ UNCHANGED <<report_written, repo1_url, repo2_url, gone, diffVars>>
    /\ UNCHANGED <<scan, dir1, dir2, deep_compare, pc, matching_files,
                   mi, roots, root, files, path1, path2, diff_files, same_files,
                   only_in_dir1, only_in_dir2, cache, variant, first>>

\* main reaches compare_dirs(repo1_path, repo2_path, deep_compare)
MainCompare ==
    /\ mpc = "compare"
    /\ pc = "uncalled"
    /\ pc' = "idle"
    /\ mpc' = "comparing"
    /\ UNCHANGED <<clone_failed, report_written, repo1_url, repo2_url, cloned, gone, diffVars>>
    /\ UNCHANGED <<treeL, treeR, scan, dir1, dir2, deep_compare, matching_files,
                   mi, roots, root, files, path1, path2, diff_files, same_files,
                   only_in_dir1, only_in_dir2, cache, variant, first>>

\* a pair of diff_files that side_by_side_diff cannot open as a file
Unopenable(pair) == IsDir(Join(dir1, pair[1])) \/ IsDir(Join(dir2, pair[2]))

\* generate_html_report and the write of comparison_report.html: an error
\* raised while a pair is rendered leaves main before the file is opened
MainReport ==
    /\ mpc = "comparing"
    /\ pc = "done"
    /\ IF \E i \in 1..Len(diff_files) : Unopenable(diff_files[i])
       THEN mpc' = "aborted" /\ UNCHANGED report_written
       ELSE mpc' = "end" /\ report_written' = TRUE
    /\ UNCHANGED <<clone_failed, repo1_url, repo2_url, cloned, gone, diffVars>>
    /\ UNCHANGED <<treeL, treeR, scan, dir1, dir2, deep_compare, pc, matching_files,
                   mi, roots, root, files, path1, path2, diff_files, same_files,
                   only_in_dir1, only_in_dir2, cache, variant, first>>

InitMain ==
    /\ treeL = EmptyTree
    /\ treeR = EmptyTree
    /\ scan \in ScanOrders
    /\ dir1 = RootL
    /\ dir2 = RootR
    /\ deep_compare \in BOOLEAN
    /\ pc = "uncalled"
    /\ matching_files = <<>>
    /\ mi = 1
    /\ roots = <<>>
    /\ root = <<>>
    /\ files = <<>>
    /\ path1 = <<>>
    /\ path2 = <<>>
    /\ diff_files = <<>>
    /\ same_files = <<>>
    /\ only_in_dir1 = <<>>
    /\ only_in_dir2 = <<>>
    /\ cache = {}
    /\ variant = "none"
    /\ first = NoResult
    /\ gone = {}
    /\ mpc = "paths"
    /\ clone_failed = 0
    /\ report_written = FALSE
    /\ \E u \in UrlPairs : repo1_url = u[1] /\ repo2_url = u[2]
    /\ cloned = NoClones
    /\ DiffOff

NextMain ==
    \/ MainPaths
    \/ Clone1
    \/ Clone2
    \/ CloneFails(1)
    \/ CloneFails(2)
    \/ MainCompare
    \/ Call
    \/ FindMatching
    \/ FuzzyCmp
    \/ FuzzyRaises
    \/ Exists1
    \/ Cmp1
    \/ CmpRaises
    \/ Exists2
    \/ MainReport

SpecMain == InitMain /\ [][NextMain]_vars

----------------------------------------------------------------------------
(* difflib.SequenceMatcher(None, a, b), the alignment under unified_diff and *)
(* HtmlDiff.make_table.  Positions count from 0 and ranges are half open,    *)
(* as in difflib.                                                            *)

Min(x, y) == IF x <= y THEN x ELSE y

\* a[i : i+k] == b[j : j+k]
SameRun(a, b, i, j, k) == \A d \in 1..k : a[i + d] = b[j + d]

\* the common runs within a[alo:ahi] and b[blo:bhi]
Runs(a, b, alo, ahi, blo, bhi) ==
    { c \in (alo..(ahi - 1)) \X (blo..(bhi - 1)) \X (1..Min(ahi - alo, bhi - blo)) :
        /\ c[1] + c[3] <= ahi
        /\ c[2] + c[3] <= bhi
        /\ SameRun(a, b, c[1], c[2], c[3]) }

\* a plausible slip: of the longest runs the last in b is taken
FindLongestMatchLastInB(a, b, alo, ahi, blo, bhi) ==
    LET rs == Runs(a, b, alo, ahi, blo, bhi)
    IN  IF rs = {} THEN <<alo, blo, 0>>
        ELSE CHOOSE c \in rs : \A d \in rs :
                \/ c[3] > d[3]
                \/ c[3] = d[3] /\ c[1] < d[1]
                \/ c[3] = d[3] /\ c[1] = d[1] /\ c[2] >= d[2]

\* find_longest_match: the longest run; of those the earliest in a, then in b
FindLongestMatch(a, b, alo, ahi, blo, bhi) ==
    LET rs == Runs(a, b, alo, ahi, blo, bhi)
    IN  IF rs = {} THEN <<alo, blo, 0>>
        ELSE CHOOSE c \in rs : \A d \in rs :
                \/ c[3] > d[3]
                \/ c[3] = d[3] /\ c[1] < d[1]
                \/ c[3] = d[3] /\ c[1] = d[1] /\ c[2] <= d[2]

\* get_matching_blocks, the recursion: the longest match, then the matches
\* to its left and to its right, in order
RECURSIVE BlocksIn(_, _, _, _, _, _)
BlocksIn(a, b, alo, ahi, blo, bhi) ==
    LET x == FindLongestMatch(a, b, alo, ahi, blo, bhi)
    IN  IF x[3] = 0 THEN <<>>
        ELSE (IF alo < x[1] /\ blo < x[2] THEN BlocksIn(a, b, alo, x[1], blo, x[2]) ELSE <<>>)
             \o <<x>>
             \o (IF x[1] + x[3] < ahi /\ x[2] + x[3] < bhi
                 THEN BlocksIn(a, b, x[1] + x[3], ahi, x[2] + x[3], bhi) ELSE <<>>)

\* get_matching_blocks, adjacent blocks collapsed into cur
RECURSIVE Collapse(_, _)
Collapse(blocks, cur) ==
    IF blocks = <<>> THEN (IF cur[3] > 0 THEN <<cur>> ELSE <<>>)
    ELSE LET x == Head(blocks)
         IN  IF cur[1] + cur[3] = x[1] /\ cur[2] + cur[3] = x[2]
             THEN Collapse(Tail(blocks), <<cur[1], cur[2], cur[3] + x[3]>>)
             ELSE (IF cur[3] > 0 THEN <<cur>> ELSE <<>>) \o Collapse(Tail(blocks), x)

\* a plausible slip: the closing block of length 0 is left out
MatchingBlocksOpen(a, b) ==
    Collapse(BlocksIn(a, b, 0, Len(a), 0, Len(b)), <<0, 0, 0>>)

\* get_matching_blocks
MatchingBlocks(a, b) ==
    Collapse(BlocksIn(a, b, 0, Len(a), 0, Len(b)), <<0, 0, 0>>)
        \o << <<Len(a), Len(b), 0>> >>

\* a plausible slip: the tags of the one-sided blocks exchanged
OpTagSwapped(i, ai, j, bj) ==
    IF i < ai /\ j < bj THEN "replace"
    ELSE IF i < ai THEN "insert"
    ELSE IF j < bj THEN "delete"
    ELSE ""

\* get_opcodes: the tag of what lies between two matching blocks
OpTag(i, ai, j, bj) ==
    IF i < ai /\ j < bj THEN "replace"
    ELSE IF i < ai THEN "delete"
    ELSE IF j < bj THEN "insert"
    ELSE ""

Block(tag, i1, i2, j1, j2) == [tag |-> tag, i1 |-> i1, i2 |-> i2, j1 |-> j1, j2 |-> j2]

\* get_opcodes, the loop over the matching blocks
RECURSIVE OpcodesFrom(_, _, _)
OpcodesFrom(blocks, i, j) ==
    IF blocks = <<>> THEN <<>>
    ELSE LET x == Head(blocks)
             tag == OpTag(i, x[1], j, x[2])
         IN  (IF tag # "" THEN <<Block(tag, i, x[1], j, x[2])>> ELSE <<>>)
             \o (IF x[3] > 0
                 THEN <<Block("equal", x[1], x[1] + x[3], x[2], x[2] + x[3])>> ELSE <<>>)
             \o OpcodesFrom(Tail(blocks), x[1] + x[3], x[2] + x[3])

GetOpcodes(a, b) == OpcodesFrom(MatchingBlocks(a, b), 0, 0)

----------------------------------------------------------------------------
(* logging *)

\* logging.INFO, the level logging.basicConfig gives the root logger
INFO == 20

\* logging.DEBUG, the level of logging.debug and of setup_logging's handler
DEBUG == 10

\* the handlers logging.basicConfig installs; they keep the level NOTSET
BasicHandlers == { [name |-> "script.log", level |-> 0], [name |-> "stdout", level |-> 0] }

\* the per-run log after a call logging.log(level, rec): the root logger
\* drops a record below its level, a handler a record below its own
Emit(level, rec) ==
    IF level >= root_level /\ \E h \in handlers : h.name = "run" /\ level >= h.level
    THEN Append(runlog, rec)
    ELSE runlog

----------------------------------------------------------------------------
(* generate_html_report's loop over diff_files and side_by_side_diff *)

\* lines a text file may hold
Lines == {"a", "b", "c", "x"}

\* lines in a file
MaxLines == 3

TextFiles == UNION { [1..n -> Lines] : n \in 0..MaxLines }

Text(ls) == [kind |-> "text", lines |-> ls]

\* a file that is not valid UTF-8
Binary == [kind |-> "binary", lines |-> <<>>]

\* a path open() fails on
NoFile == [kind |-> "nofile", lines |-> <<>>]

AnyFile == { Text(ls) : ls \in TextFiles } \cup {Binary, NoFile}

FewFiles == { Text(<<"a">>), Text(<<"b", "a">>), Binary, NoFile }

\* a plausible slip: the except clause names the wrong exception
CatchesEncodeError(exc) == exc = "UnicodeEncodeError"

\* except UnicodeDecodeError
Catches(exc) == exc = "UnicodeDecodeError"

\* a plausible slip: the files are opened outside a with statement
WithExitLeaks(hs) == hs

\* the with statement ends: the files it opened are closed
WithExit(hs) == { h \in hs : h[1] # ji }

\* a plausible slip: lines2 read from f1, which is at its end
ReadLines2Again(f1, f2) == <<>>

\* lines2 = f2.readlines()
ReadLines2(f1, f2) == f2.lines

\* side_by_side_diff returns out to the template, which goes on to the next pair
Returns(out) ==
    /\ rendered' = Append(rendered, out)
    /\ handles' = WithExit(handles)
    /\ ji' = ji + 1
    /\ spc' = IF ji = Len(jobs) THEN "done" ELSE "call"
    /\ lines1' = <<>>
    /\ lines2' = <<>>
    /\ opcodes' = <<>>

\* exc is raised inside the try: caught, logged and turned into the notice,
\* or it leaves side_by_side_diff and generate_html_report
Raises(exc) ==
    IF Catches(exc)
    THEN /\ Returns("placeholder")
         /\ runlog' = Emit(DEBUG, <<"encoding", ji>>)
    ELSE /\ spc' = "raised"
         /\ handles' = WithExit(handles)
         /\ UNCHANGED <<ji, lines1, lines2, opcodes, rendered, runlog>>

CmpFrame ==
    UNCHANGED <<treeL, treeR, scan, dir1, dir2, deep_compare, pc, matching_files, mi,
                roots, root, files, path1, path2, diff_files, same_files,
                only_in_dir1, only_in_dir2, cache, variant, first, gone, mainVars>>

\* setup_logging(comparison_dir)
SetupLogging ==
    /\ spc = "setup"
    /\ handlers' = handlers \cup { [name |-> "run", level |-> DEBUG] }
    /\ spc' = IF jobs = <<>> THEN "done" ELSE "call"
    /\ UNCHANGED <<jobs, ji, handles, lines1, lines2, opcodes, rendered, root_level, runlog>>
    /\ CmpFrame

\* open(file1, 'r', encoding='utf-8')
Open1 ==
    /\ spc = "call"
    /\ IF jobs[ji][1].kind = "nofile"
       THEN Raises("OSError")
       ELSE /\ handles' = handles \cup { <<ji, 1>> }
            /\ spc' = "open2"
            /\ UNCHANGED <<ji, lines1, lines2, opcodes, rendered, runlog>>
    /\ UNCHANGED <<jobs, root_level, handlers>>
    /\ CmpFrame

\* open(file2, 'r', encoding='utf-8')
Open2 ==
    /\ spc = "open2"
    /\ IF jobs[ji][2].kind = "nofile"
       THEN Raises("OSError")
       ELSE /\ handles' = handles \cup { <<ji, 2>> }
            /\ spc' = "read1"
            /\ UNCHANGED <<ji, lines1, lines2, opcodes, rendered, runlog>>
    /\ UNCHANGED <<jobs, root_level, handlers>>
    /\ CmpFrame

\* lines1 = f1.readlines()
Read1 ==
    /\ spc = "read1"
    /\ IF jobs[ji][1].kind = "binary"
       THEN Raises("UnicodeDecodeError")
       ELSE /\ lines1' = jobs[ji][1].lines
            /\ spc' = "read2"
            /\ UNCHANGED <<ji, handles, lines2, opcodes, rendered, runlog>>
    /\ UNCHANGED <<jobs, root_level, handlers>>
    /\ CmpFrame

\* lines2 = f2.readlines()
Read2 ==
    /\ spc = "read2"
    /\ IF jobs[ji][2].kind = "binary"
       THEN Raises("UnicodeDecodeError")
       ELSE /\ lines2' = ReadLines2(jobs[ji][1], jobs[ji][2])
            /\ spc' = "diff"
            /\ UNCHANGED <<ji, handles, lines1, opcodes, rendered, runlog>>
    /\ UNCHANGED <<jobs, root_level, handlers>>
    /\ CmpFrame

\* differ.make_table(lines1, lines2, ...) and unified_diff(lines1, lines2, ...)
Diff ==
    /\ spc = "diff"
    /\ opcodes' = GetOpcodes(lines1, lines2)
    /\ spc' = "log"
    /\ UNCHANGED <<jobs, ji, handles, lines1, lines2, rendered, root_level, handlers, runlog>>
    /\ CmpFrame

\* logging.debug of the unified diff, return diff_table
LogReturn ==
    /\ spc = "log"
    /\ runlog' = Emit(DEBUG, <<"unified", ji>>)
    /\ Returns("table")
    /\ UNCHANGED <<jobs, root_level, handlers>>
    /\ CmpFrame

\* the state when generate_html_report is reached, before setup_logging:
\* one pair of any two files, or two pairs of a few
InitDiff ==
    /\ treeL = EmptyTree
    /\ treeR = EmptyTree
    /\ scan = Names
    /\ dir1 = RootL
    /\ dir2 = RootR
    /\ deep_compare = FALSE
    /\ pc = "done"
    /\ matching_files = <<>>
    /\ mi = 1
    /\ roots = <<>>
    /\ root = <<>>
    /\ files = <<>>
    /\ path1 = <<>>
    /\ path2 = <<>>
    /\ diff_files = <<>>
    /\ same_files = <<>>
    /\ only_in_dir1 = <<>>
    /\ only_in_dir2 = <<>>
    /\ cache = {}
    /\ variant = "diff"
    /\ first = NoResult
    /\ gone = {}
    /\ MainOff
    /\ \/ \E f1 \in AnyFile : \E f2 \in AnyFile : jobs = << <<f1, f2>> >>
       \/ \E f1 \in FewFiles : \E f2 \in FewFiles : \E g1 \in FewFiles : \E g2 \in FewFiles :
             jobs = << <<f1, f2>>, <<g1, g2>> >>
    /\ ji = 1
    /\ spc = "setup"
    /\ handles = {}
    /\ lines1 = <<>>
    /\ lines2 = <<>>
    /\ opcodes = <<>>
    /\ rendered = <<>>
    /\ root_level = INFO
    /\ handlers = BasicHandlers
    /\ runlog = <<>>

NextDiff ==
    \/ SetupLogging
    \/ Open1
    \/ Open2
    \/ Read1
    \/ Read2
    \/ Diff
    \/ LogReturn

SpecDiff == InitDiff /\ [][NextDiff]_vars

----------------------------------------------------------------------------
(* Vocabulary of the properties *)

\* compare_dirs has returned its four lists
Returned == pc = "done"

\* the trees the running call was given as dir1 and dir2
Left == TreeOf(dir1)
Right == TreeOf(dir2)

\* no directory component of the path is named .git
OutsideGit(p) == \A i \in 1..(Len(p) - 1) : p[i] # ".git"

Basename(p) == p[Len(p)]

\* same length and the same byte at every offset
SameBytes(c1, c2) == Len(c1) = Len(c2) /\ \A i \in 1..Len(c1) : c1[i] = c2[i]

Lefts(pairs) == { pairs[i][1] : i \in 1..Len(pairs) }
Rights(pairs) == { pairs[i][2] : i \in 1..Len(pairs) }

Disjoint3(A, B, C) == A \cap B = {} /\ A \cap C = {} /\ B \cap C = {}

----------------------------------------------------------------------------
(* Properties *)

\* C1: every relative path that is a file outside .git in both trees is the
\* pair (p, p) of exactly one of same_files and diff_files: of same_files
\* when the two files have the same length and bytes, of diff_files otherwise.
C1_Partition ==
    Returned =>
        \A p \in DOMAIN Left \cap DOMAIN Right :
            OutsideGit(p) =>
                /\ (<<p, p>> \in Range(same_files)) # (<<p, p>> \in Range(diff_files))
                /\ (<<p, p>> \in Range(same_files)) <=> SameBytes(Left[p], Right[p])

C1_Witness ==
    /\ Returned
    /\ deep_compare
    /\ \E p \in DOMAIN Left \cap DOMAIN Right :
          /\ Len(Left[p]) = Len(Right[p])
          /\ Left[p] # Right[p]
          /\ <<p, p>> \in Range(diff_files)

\* C2 as stated: in either mode no relative path is in more than one of
\* identical, differing, onlyLeft, onlyRight (a path of a pair counted on
\* its own side).
C2_Original ==
    Returned =>
        /\ Disjoint3(Lefts(same_files), Lefts(diff_files), Range(only_in_dir1))
        /\ Disjoint3(Rights(same_files), Rights(diff_files), Range(only_in_dir2))
        /\ Range(only_in_dir1) \cap Range(only_in_dir2) = {}

\* C2 as amended: no relative path is in more than one of identical,
\* onlyLeft, onlyRight in either mode, and with deep_compare=False in no
\* more than one of the four classes.
C2_Disjoint ==
    Returned =>
        LET I == Lefts(same_files) \cup Rights(same_files)
            D == Lefts(diff_files) \cup Rights(diff_files)
            OL == Range(only_in_dir1)
            OR == Range(only_in_dir2)
        IN  /\ Disjoint3(I, OL, OR)
            /\ ~deep_compare => D \cap (I \cup OL \cup OR) = {}

C2_Witness ==
    /\ Returned
    /\ ~deep_compare
    /\ diff_files # <<>>
    /\ only_in_dir2 # <<>>

\* C3: onlyLeft is exactly the files enumerated under the left tree for which
\* the right tree has no file at the same relative path, a directory there
\* included, and onlyRight the same with the trees exchanged.
C3_OnlySets ==
    Returned =>
        /\ Range(only_in_dir1) =
              { p \in DOMAIN Left : OutsideGit(p) /\ p \notin DOMAIN Right }
        /\ Range(only_in_dir2) =
              { p \in DOMAIN Right : OutsideGit(p) /\ p \notin DOMAIN Left }

\* C4: the onlyLeft list of compare_dirs(L, R) is the onlyRight list of
\* compare_dirs(R, L), for either tree as L.
C4_Symmetry ==
    (Returned /\ variant = "swap") =>
        /\ first.only1 = only_in_dir2
        /\ first.only2 = only_in_dir1

C4_Witness ==
    /\ Returned
    /\ variant = "swap"
    /\ Len(only_in_dir2) >= 2

\* C5: with deep_compare=True every left file and right file outside .git
\* with the same basename and different contents are a pair of diff_files.
C5_Fuzzy ==
    (Returned /\ deep_compare) =>
        \A p \in DOMAIN Left : \A q \in DOMAIN Right :
            ( /\ OutsideGit(p)
              /\ OutsideGit(q)
              /\ Basename(p) = Basename(q)
              /\ ~SameBytes(Left[p], Right[q]) )
            => <<p, q>> \in Range(diff_files)

C5_Witness ==
    /\ Returned
    /\ deep_compare
    /\ \E p \in DOMAIN Left : \E q \in DOMAIN Right :
          /\ p # q
          /\ Basename(p) = Basename(q)
          /\ Left[p] # Right[q]
          /\ <<p, q>> \in Range(diff_files)

\* C6: for the same trees the two modes return the same identical, onlyLeft
\* and onlyRight lists, and every pair of identical has equal components.
C6_Frame ==
    /\ (Returned /\ variant = "flip") =>
          /\ first.same = same_files
          /\ first.only1 = only_in_dir1
          /\ first.only2 = only_in_dir2
    /\ Returned => \A i \in 1..Len(same_files) : same_files[i][1] = same_files[i][2]

C6_Witness ==
    /\ Returned
    /\ variant = "flip"
    /\ deep_compare
    /\ \E i \in 1..Len(matching_files) :
          /\ RelPath(matching_files[i][1], dir1) # RelPath(matching_files[i][2], dir2)
          /\ Bytes(matching_files[i][1]) = Bytes(matching_files[i][2])

\* C7: no (pathLeft, pathRight) pair occurs more than once in diff_files.
C7_NoDuplicatePair ==
    Returned =>
        \A i \in 1..Len(diff_files) : \A j \in 1..Len(diff_files) :
            i # j => diff_files[i] # diff_files[j]

\* C8: no path of the four classes and no path of a pair returned by
\* find_matching_files has a directory component named .git.
C8_NoGit ==
    /\ \A p \in Lefts(diff_files) \cup Rights(diff_files) : OutsideGit(p)
    /\ \A p \in Lefts(same_files) \cup Rights(same_files) : OutsideGit(p)
    /\ \A p \in Range(only_in_dir1) \cup Range(only_in_dir2) : OutsideGit(p)
    /\ \A p \in Lefts(matching_files) \cup Rights(matching_files) : OutsideGit(p)

C8_Witness ==
    /\ Returned
    /\ deep_compare
    /\ <<"a", ".git", "b">> \in DOMAIN Left
    /\ <<".git", "b">> \in DOMAIN Right
    /\ <<"b">> \in DOMAIN Right

\* C9: two successive calls on the same static trees with the same mode
\* return the same four lists.
C9_Idempotent ==
    (Returned /\ variant = "same") => first = Result

C9_Witness ==
    /\ Returned
    /\ variant = "same"
    /\ diff_files # <<>>
    /\ only_in_dir1 # <<>>

\* C10: a file pair that cannot be read does not abort compare_dirs.
C10_NoAbort == pc # "raised"

\* C11: compare_dirs does not fail when another process deletes a file it
\* has enumerated and not yet compared.
C11_RaceTolerated == pc # "raised"

\* C20: during one run of compare_dirs every step leaves each result list a
\* prefix of what it becomes and appends at most one entry in all.
C20_Monotonic ==
    [][ pc # "idle" =>
          /\ IsPrefix(diff_files, diff_files')
          /\ IsPrefix(same_files, same_files')
          /\ IsPrefix(only_in_dir1, only_in_dir1')
          /\ IsPrefix(only_in_dir2, only_in_dir2')
          /\ Len(diff_files') + Len(same_files') + Len(only_in_dir1') + Len(only_in_dir2')
               <= Len(diff_files) + Len(same_files) + Len(only_in_dir1) + Len(only_in_dir2) + 1
      ]_vars

C20_Witness ==
    /\ pc = "walk2"
    /\ deep_compare
    /\ Len(diff_files) >= 2
    /\ only_in_dir1 # <<>>

\* C13: if either clone fails, compare_dirs is never called and no report
\* is written.
C13_AbortBeforeCompare ==
    clone_failed # 0 => (pc = "uncalled" /\ ~report_written /\ mpc = "aborted")

C13_Witness ==
    /\ clone_failed = 2
    /\ mpc = "aborted"
    /\ DOMAIN treeL # {}

----------------------------------------------------------------------------
(* Properties of the report loop and side_by_side_diff *)

\* the files of pair i of the report loop
File1(i) == jobs[i][1]

File2(i) == jobs[i][2]

\* both files of pair i can be opened
Opens(i) == File1(i).kind # "nofile" /\ File2(i).kind # "nofile"

\* pair i was read and one of its files is not valid UTF-8
Undecodable(i) == Opens(i) /\ (File1(i).kind = "binary" \/ File2(i).kind = "binary")

\* the diff step has run for the pair at hand
Diffed == spc = "log"

\* C12: a pair whose files are read but of which one cannot be decoded as
\* UTF-8 never makes side_by_side_diff raise and never reaches the diff step;
\* it is rendered as the placeholder notice, and the loop goes on until every
\* other pair is rendered.
C12_Placeholder ==
    /\ \A i \in 1..Len(rendered) : Undecodable(i) => rendered[i] = "placeholder"
    /\ spc \in {"diff", "log", "raised"} => ~Undecodable(ji)
    /\ spc = "done" => Len(rendered) = Len(jobs)
    /\ (spc \notin {"done", "setup"} /\ \A i \in 1..Len(jobs) : Undecodable(i))
          => Len(rendered) = ji - 1

C12_Witness ==
    /\ spc = "done"
    /\ Len(jobs) = 2
    /\ File1(1).kind = "binary"
    /\ File2(2).kind = "binary"
    /\ rendered = <<"placeholder", "placeholder">>

\* the blocks start at 0, each starts where the one before ends, the last
\* ends at the lengths la and lb
Contiguous(ops, la, lb) ==
    IF ops = <<>> THEN la = 0 /\ lb = 0
    ELSE /\ ops[1].i1 = 0
         /\ ops[1].j1 = 0
         /\ ops[Len(ops)].i2 = la
         /\ ops[Len(ops)].j2 = lb
         /\ \A k \in 1..Len(ops) : ops[k].i1 <= ops[k].i2 /\ ops[k].j1 <= ops[k].j2
         /\ \A k \in 1..(Len(ops) - 1) :
               ops[k].i2 = ops[k + 1].i1 /\ ops[k].j2 = ops[k + 1].j1

\* the concatenation of the left extents of ops, cut out of a
RECURSIVE LeftExtents(_, _)
LeftExtents(ops, a) ==
    IF ops = <<>> THEN <<>>
    ELSE SubSeq(a, Head(ops).i1 + 1, Head(ops).i2) \o LeftExtents(Tail(ops), a)

\* the concatenation of the right extents of ops, cut out of b
RECURSIVE RightExtents(_, _)
RightExtents(ops, b) ==
    IF ops = <<>> THEN <<>>
    ELSE SubSeq(b, Head(ops).j1 + 1, Head(ops).j2) \o RightExtents(Tail(ops), b)

\* C14: after the diff step the alignment blocks are ordered and contiguous,
\* their left extents concatenate to the lines of the left file and their
\* right extents to the lines of the right file.
C14_RoundTrip ==
    Diffed =>
        /\ Contiguous(opcodes, Len(File1(ji).lines), Len(File2(ji).lines))
        /\ LeftExtents(opcodes, File1(ji).lines) = File1(ji).lines
        /\ RightExtents(opcodes, File2(ji).lines) = File2(ji).lines

C14_Witness ==
    /\ Diffed
    /\ Len(opcodes) >= 3
    /\ \E k \in 1..Len(opcodes) : opcodes[k].tag = "insert"

\* the one block that says a of length n equals b of length n
OneEqual(n) == << Block("equal", 0, n, 0, n) >>

\* C15 as stated: aligning any X with itself, the empty X included, yields
\* exactly one block, tagged equal, spanning X.
C15_Original ==
    (Diffed /\ File1(ji).lines = File2(ji).lines)
        => opcodes = OneEqual(Len(File1(ji).lines))

\* C15: aligning a non-empty X with itself yields exactly one block, tagged
\* equal, spanning X; aligning the empty sequence with itself yields no block.
C15_SelfAlign ==
    (Diffed /\ File1(ji).lines = File2(ji).lines)
        => opcodes = IF File1(ji).lines = <<>> THEN <<>>
                     ELSE OneEqual(Len(File1(ji).lines))

C15_Witness ==
    /\ Diffed
    /\ File1(ji).lines = File2(ji).lines
    /\ Len(File1(ji).lines) >= 2
    /\ opcodes = OneEqual(Len(File1(ji).lines))

\* a and b have the same length and differ at position k (from 0) only
DifferOnlyAt(a, b, k) ==
    /\ Len(a) = Len(b)
    /\ k < Len(a)
    /\ \A d \in 1..Len(a) : (a[d] = b[d]) <=> (d # k + 1)

\* equal for the prefix if there is one, replace of line k, equal for the
\* suffix if there is one
EqualReplaceEqual(n, k) ==
    (IF k > 0 THEN << Block("equal", 0, k, 0, k) >> ELSE <<>>)
        \o << Block("replace", k, k + 1, k, k + 1) >>
        \o (IF k + 1 < n THEN << Block("equal", k + 1, n, k + 1, n) >> ELSE <<>>)

C17_OneSided ==
    Diffed =>
        /\ (File1(ji).lines = <<>> /\ File2(ji).lines # <<>>)
              => opcodes = << Block("insert", 0, 0, 0, Len(File2(ji).lines)) >>
        /\ (File1(ji).lines # <<>> /\ File2(ji).lines = <<>>)
              => opcodes = << Block("delete", 0, Len(File1(ji).lines), 0, 0) >>

C17_Witness ==
    /\ Diffed
    /\ File1(ji).lines = <<>>
    /\ File2(ji).lines = <<"a">>
    /\ opcodes = << Block("insert", 0, 0, 0, 1) >>

\* C18: once a pair whose files both decode has been rendered, its unified
\* diff is in the log that setup_logging's handler writes.
C18_UnifiedLogged ==
    \A i \in 1..Len(rendered) :
        rendered[i] = "table" => \E k \in 1..Len(runlog) : runlog[k] = <<"unified", i>>

\* C19: every open handle belongs to the pair at hand, and none is open
\* before a call of side_by_side_diff or after it has returned or raised.
C19_HandlesScoped ==
    /\ \A h \in handles : h[1] = ji
    /\ spc \in {"setup", "call", "done", "raised"} => handles = {}

C19_Witness ==
    /\ spc = "raised"
    /\ ji = 2
    /\ rendered = <<"placeholder">>
    /\ File1(2).kind = "text"
    /\ File2(2).kind = "nofile"

----------------------------------------------------------------------------
(* Properties of main's clone directories *)

\* C21: when main has called compare_dirs the two roots are different
\* directories, the left root holds the clone of repo1 and the right root
\* the clone of repo2.
C21_ClonesApart ==
    mpc = "comparing" =>
        /\ dir1 # dir2
        /\ cloned[dir1] = "repo1"
        /\ cloned[dir2] = "repo2"

====
